---- MODULE Spec2Model ----
(***************************************************************************)
(* Model of deb.Parse (src/deb.go): the walk over the outer ar archive,    *)
(* the per-codec control.tar.* wrappers, the scan of the inner tar stream  *)
(* and the line-oriented parser of the ./control text.                     *)
(*                                                                         *)
(* Strings are sequences of one-character strings, so that SplitN,         *)
(* TrimSpace, ParseInt and the scanner's line splitting are computed the   *)
(* way the Go library computes them.  Errors are wrap chains: the nil      *)
(* error is the empty chain, errors.Wrap puts a message in front of a      *)
(* non-nil chain and returns nil for nil.                                  *)
(*                                                                         *)
(* The archive is the environment: every call of ar_reader.Next,           *)
(* tar_reader.Next and scanner.Scan draws its outcome from a small set.    *)
(***************************************************************************)
EXTENDS Integers, Sequences, FiniteSets, TLC

\* Bounds of the model: outer members fetched, inner members fetched and
\* control lines scanned in one call of Parse.
MaxMembers == 3
MaxInner == 2
MaxLines == 3

----------------------------------------------------------------------------
\* Characters and strings

NUL == "NUL"

Whitespace == {" ", "\t", "\n", "\r", "\f"}

S_Architecture == <<"A","r","c","h","i","t","e","c","t","u","r","e">>
S_BuiltUsing == <<"B","u","i","l","t","-","U","s","i","n","g">>
S_Depends == <<"D","e","p","e","n","d","s">>
S_Description == <<"D","e","s","c","r","i","p","t","i","o","n">>
S_Homepage == <<"H","o","m","e","p","a","g","e">>
S_InstalledSize == <<"I","n","s","t","a","l","l","e","d","-","S","i","z","e">>
S_Maintainer == <<"M","a","i","n","t","a","i","n","e","r">>
S_Package == <<"P","a","c","k","a","g","e">>
S_Priority == <<"P","r","i","o","r","i","t","y">>
S_Recommends == <<"R","e","c","o","m","m","e","n","d","s">>
S_Section == <<"S","e","c","t","i","o","n">>
S_Version == <<"V","e","r","s","i","o","n">>

FieldSep == <<":", " ">>
ListSep == <<",", " ">>

----------------------------------------------------------------------------
\* Library functions used by the parser

Min(S) == CHOOSE x \in S : \A y \in S : x <= y

\* strings.Index: position of the first occurrence of sep in s, 0 if none
Index(s, sep) ==
  LET I == {i \in 1..(Len(s) - Len(sep) + 1) : SubSeq(s, i, i + Len(sep) - 1) = sep}
  IN IF I = {} THEN 0 ELSE Min(I)

\* strings.SplitN(s, sep, n) for a non-empty sep: n < 0 means no limit
RECURSIVE SplitN(_, _, _)
SplitN(s, sep, n) ==
  IF n = 0 THEN <<>>
  ELSE IF n = 1 \/ Index(s, sep) = 0 THEN <<s>>
  ELSE LET i == Index(s, sep)
       IN <<SubSeq(s, 1, i - 1)>> \o SplitN(SubSeq(s, i + Len(sep), Len(s)), sep, n - 1)

RECURSIVE TrimLeft(_)
TrimLeft(s) == IF s # <<>> /\ Head(s) \in Whitespace THEN TrimLeft(Tail(s)) ELSE s

RECURSIVE TrimRight(_)
TrimRight(s) ==
  IF s # <<>> /\ s[Len(s)] \in Whitespace THEN TrimRight(SubSeq(s, 1, Len(s) - 1)) ELSE s

\* strings.TrimSpace
TrimSpace(s) == TrimRight(TrimLeft(s))

DigitValue == ("0" :> 0) @@ ("1" :> 1) @@ ("2" :> 2) @@ ("3" :> 3) @@ ("4" :> 4) @@
              ("5" :> 5) @@ ("6" :> 6) @@ ("7" :> 7) @@ ("8" :> 8) @@ ("9" :> 9)

RECURSIVE DigitsValue(_)
DigitsValue(s) ==
  IF s = <<>> THEN 0 ELSE 10 * DigitsValue(SubSeq(s, 1, Len(s) - 1)) + DigitValue[s[Len(s)]]

\* strconv.ParseInt(value, 10, 64): an optional sign followed by one or more
\* decimal digits; anything else is a syntax error.  (The values of the model
\* are far below 2^63, so the range error never arises.)
ParseInt(value) ==
  LET signed == value # <<>> /\ Head(value) \in {"+", "-"}
      digits == IF signed THEN Tail(value) ELSE value
      ok == digits # <<>> /\ \A i \in 1..Len(digits) : digits[i] \in DOMAIN DigitValue
  IN IF ~ok THEN [err |-> <<"strconv.ParseInt: invalid syntax">>, val |-> 0]
     ELSE [err |-> <<>>,
           val |-> IF signed /\ Head(value) = "-" THEN 0 - DigitsValue(digits)
                   ELSE DigitsValue(digits)]

\* errors.Wrap / errors.Wrapf of github.com/pkg/errors: nil stays nil
Wrap(err, msg) == IF err = <<>> THEN <<>> ELSE <<msg>> \o err

EOF == <<"EOF">>

\* bufio.Reader.ReadString(delim) on a stream that yields content and then
\* ends with the error end: the text up to and including the first delim with
\* a nil error, or everything read with the error that ended the stream
ReadString(content, end, delim) ==
  LET i == Index(content, <<delim>>)
  IN IF i # 0 THEN [str |-> SubSeq(content, 1, i), err |-> <<>>]
     ELSE [str |-> content, err |-> end]

\* bufio.ScanLines on one raw line: the text before the newline, without a
\* trailing carriage return
ScanLines(raw) ==
  LET i == Index(raw, <<"\n">>)
      data == IF i = 0 THEN raw ELSE SubSeq(raw, 1, i - 1)
  IN IF data # <<>> /\ data[Len(data)] = "\r" THEN SubSeq(data, 1, Len(data) - 1) ELSE data

----------------------------------------------------------------------------
\* The record

Filename == "pkg.deb"
ModTime == "mtime"

ZeroDEBPackage ==
  [Architecture |-> <<>>, BuiltUsing |-> <<>>, DebVersion |-> <<>>, Depends |-> <<>>,
   Description |-> <<>>, Filename |-> "", Homepage |-> <<>>, InstalledSize |-> 0,
   Maintainer |-> <<>>, Modified |-> "", Name |-> <<>>, Priority |-> <<>>,
   Recommends |-> <<>>, Section |-> <<>>, Version |-> <<>>]

NewDEBPackage == [ZeroDEBPackage EXCEPT !.Filename = Filename, !.Modified = ModTime]

----------------------------------------------------------------------------
\* The control-text parser

ContinuationChars == {" ", "\t", "\r", "\n"}

parse_control_field(line) ==
  LET fields == SplitN(line, FieldSep, 2)
  IN IF Len(fields) = 2 THEN <<TrimSpace(fields[1]), TrimSpace(fields[2])>>
     ELSE <<<<>>, <<>>>>

\* StoreField with the value of a field of any other name stored as homepage
StoreField_Unknown(d, name, value) ==
  LET ok(r) == [deb |-> r, in_description |-> FALSE, err |-> <<>>]
  IN CASE name = S_Architecture -> ok([d EXCEPT !.Architecture = value])
       [] name = S_BuiltUsing -> ok([d EXCEPT !.BuiltUsing = SplitN(value, ListSep, -1)])
       [] name = S_Depends -> ok([d EXCEPT !.Depends = SplitN(value, ListSep, -1)])
       [] name = S_Description ->
            [deb |-> [d EXCEPT !.Description = value], in_description |-> TRUE, err |-> <<>>]
       [] name = S_Homepage -> ok([d EXCEPT !.Homepage = value])
       [] name = S_InstalledSize ->
            LET size == ParseInt(value)
            IN IF size.err # <<>>
               THEN [deb |-> d, in_description |-> FALSE,
                     err |-> Wrap(size.err, "Error parsing Installed-Size")]
               ELSE ok([d EXCEPT !.InstalledSize = size.val])
       [] name = S_Maintainer -> ok([d EXCEPT !.Maintainer = value])
       [] name = S_Package -> ok([d EXCEPT !.Name = value])
       [] name = S_Priority -> ok([d EXCEPT !.Priority = value])
       [] name = S_Recommends -> ok([d EXCEPT !.Recommends = SplitN(value, ListSep, -1)])
       [] name = S_Section -> ok([d EXCEPT !.Section = value])
       [] name = S_Version -> ok([d EXCEPT !.Version = value])
       [] OTHER -> ok([d EXCEPT !.Homepage = value])

\* StoreField with a field of any other name refused
StoreField_Strict(d, name, value) ==
  LET ok(r) == [deb |-> r, in_description |-> FALSE, err |-> <<>>]
  IN CASE name = S_Architecture -> ok([d EXCEPT !.Architecture = value])
       [] name = S_BuiltUsing -> ok([d EXCEPT !.BuiltUsing = SplitN(value, ListSep, -1)])
       [] name = S_Depends -> ok([d EXCEPT !.Depends = SplitN(value, ListSep, -1)])
       [] name = S_Description ->
            [deb |-> [d EXCEPT !.Description = value], in_description |-> TRUE, err |-> <<>>]
       [] name = S_Homepage -> ok([d EXCEPT !.Homepage = value])
       [] name = S_InstalledSize ->
            LET size == ParseInt(value)
            IN IF size.err # <<>>
               THEN [deb |-> d, in_description |-> FALSE,
                     err |-> Wrap(size.err, "Error parsing Installed-Size")]
               ELSE ok([d EXCEPT !.InstalledSize = size.val])
       [] name = S_Maintainer -> ok([d EXCEPT !.Maintainer = value])
       [] name = S_Package -> ok([d EXCEPT !.Name = value])
       [] name = S_Priority -> ok([d EXCEPT !.Priority = value])
       [] name = S_Recommends -> ok([d EXCEPT !.Recommends = SplitN(value, ListSep, -1)])
       [] name = S_Section -> ok([d EXCEPT !.Section = value])
       [] name = S_Version -> ok([d EXCEPT !.Version = value])
       [] OTHER -> [deb |-> d, in_description |-> FALSE, err |-> <<"unknown field">>]

\* StoreField with the list values split at the first separator only
StoreField_SplitOnce(d, name, value) ==
  LET ok(r) == [deb |-> r, in_description |-> FALSE, err |-> <<>>]
  IN CASE name = S_Architecture -> ok([d EXCEPT !.Architecture = value])
       [] name = S_BuiltUsing -> ok([d EXCEPT !.BuiltUsing = SplitN(value, ListSep, 2)])
       [] name = S_Depends -> ok([d EXCEPT !.Depends = SplitN(value, ListSep, 2)])
       [] name = S_Description ->
            [deb |-> [d EXCEPT !.Description = value], in_description |-> TRUE, err |-> <<>>]
       [] name = S_Homepage -> ok([d EXCEPT !.Homepage = value])
       [] name = S_InstalledSize ->
            LET size == ParseInt(value)
            IN IF size.err # <<>>
               THEN [deb |-> d, in_description |-> FALSE,
                     err |-> Wrap(size.err, "Error parsing Installed-Size")]
               ELSE ok([d EXCEPT !.InstalledSize = size.val])
       [] name = S_Maintainer -> ok([d EXCEPT !.Maintainer = value])
       [] name = S_Package -> ok([d EXCEPT !.Name = value])
       [] name = S_Priority -> ok([d EXCEPT !.Priority = value])
       [] name = S_Recommends -> ok([d EXCEPT !.Recommends = SplitN(value, ListSep, 2)])
       [] name = S_Section -> ok([d EXCEPT !.Section = value])
       [] name = S_Version -> ok([d EXCEPT !.Version = value])
       [] OTHER -> ok(d)

\* StoreField with a malformed Installed-Size value passed over
StoreField_SizeIgnored(d, name, value) ==
  LET ok(r) == [deb |-> r, in_description |-> FALSE, err |-> <<>>]
  IN CASE name = S_Architecture -> ok([d EXCEPT !.Architecture = value])
       [] name = S_BuiltUsing -> ok([d EXCEPT !.BuiltUsing = SplitN(value, ListSep, -1)])
       [] name = S_Depends -> ok([d EXCEPT !.Depends = SplitN(value, ListSep, -1)])
       [] name = S_Description ->
            [deb |-> [d EXCEPT !.Description = value], in_description |-> TRUE, err |-> <<>>]
       [] name = S_Homepage -> ok([d EXCEPT !.Homepage = value])
       [] name = S_InstalledSize ->
            LET size == ParseInt(value)
            IN IF size.err # <<>>
               THEN ok(d)
               ELSE ok([d EXCEPT !.InstalledSize = size.val])
       [] name = S_Maintainer -> ok([d EXCEPT !.Maintainer = value])
       [] name = S_Package -> ok([d EXCEPT !.Name = value])
       [] name = S_Priority -> ok([d EXCEPT !.Priority = value])
       [] name = S_Recommends -> ok([d EXCEPT !.Recommends = SplitN(value, ListSep, -1)])
       [] name = S_Section -> ok([d EXCEPT !.Section = value])
       [] name = S_Version -> ok([d EXCEPT !.Version = value])
       [] OTHER -> ok(d)

\* The switch of parse_control on the field name
StoreField(d, name, value) ==
  LET ok(r) == [deb |-> r, in_description |-> FALSE, err |-> <<>>]
  IN CASE name = S_Architecture -> ok([d EXCEPT !.Architecture = value])
       [] name = S_BuiltUsing -> ok([d EXCEPT !.BuiltUsing = SplitN(value, ListSep, -1)])
       [] name = S_Depends -> ok([d EXCEPT !.Depends = SplitN(value, ListSep, -1)])
       [] name = S_Description ->
            [deb |-> [d EXCEPT !.Description = value], in_description |-> TRUE, err |-> <<>>]
       [] name = S_Homepage -> ok([d EXCEPT !.Homepage = value])
       [] name = S_InstalledSize ->
            LET size == ParseInt(value)
            IN IF size.err # <<>>
               THEN [deb |-> d, in_description |-> FALSE,
                     err |-> Wrap(size.err, "Error parsing Installed-Size")]
               ELSE ok([d EXCEPT !.InstalledSize = size.val])
       [] name = S_Maintainer -> ok([d EXCEPT !.Maintainer = value])
       [] name = S_Package -> ok([d EXCEPT !.Name = value])
       [] name = S_Priority -> ok([d EXCEPT !.Priority = value])
       [] name = S_Recommends -> ok([d EXCEPT !.Recommends = SplitN(value, ListSep, -1)])
       [] name = S_Section -> ok([d EXCEPT !.Section = value])
       [] name = S_Version -> ok([d EXCEPT !.Version = value])
       [] OTHER -> ok(d)

\* line[0:1] of an empty line is out of range: the slice expression panics
SlicePanics(line) == Len(line) < 1

\* LoopBody with a newline put between the description and a continuation line
LoopBody_Separator(d, in_desc, line) ==
  IF in_desc /\ SlicePanics(line)
  THEN [deb |-> d, in_description |-> in_desc, err |-> <<>>, panic |-> TRUE]
  ELSE
    LET continued == in_desc /\ Head(line) \in ContinuationChars
        d1 == IF continued
              THEN [d EXCEPT !.Description = d.Description \o <<"\n">> \o line]
              ELSE d
    IN IF continued
       THEN [deb |-> d1, in_description |-> TRUE, err |-> <<>>, panic |-> FALSE]
       ELSE LET f == parse_control_field(line)
                r == StoreField(d1, f[1], f[2])
            IN [deb |-> r.deb, in_description |-> r.in_description, err |-> r.err,
                panic |-> FALSE]

\* LoopBody with the line that ends continuation mode dropped
LoopBody_DropEnding(d, in_desc, line) ==
  IF in_desc /\ SlicePanics(line)
  THEN [deb |-> d, in_description |-> in_desc, err |-> <<>>, panic |-> TRUE]
  ELSE
    LET continued == in_desc /\ Head(line) \in ContinuationChars
        d1 == IF continued THEN [d EXCEPT !.Description = d.Description \o line] ELSE d
    IN IF continued
       THEN [deb |-> d1, in_description |-> TRUE, err |-> <<>>, panic |-> FALSE]
       ELSE LET f == parse_control_field(line)
                r == IF in_desc THEN StoreField(d1, <<>>, <<>>) ELSE StoreField(d1, f[1], f[2])
            IN [deb |-> r.deb, in_description |-> r.in_description, err |-> r.err,
                panic |-> FALSE]

\* One iteration of the loop of parse_control on the scanned line.  panic
\* tells that the iteration panicked; err is the value parse_control returns
\* from inside the loop (nil: the loop goes on).
LoopBody(d, in_desc, line) ==
  IF in_desc /\ SlicePanics(line)
  THEN [deb |-> d, in_description |-> in_desc, err |-> <<>>, panic |-> TRUE]
  ELSE
    LET continued == in_desc /\ Head(line) \in ContinuationChars
        d1 == IF continued THEN [d EXCEPT !.Description = d.Description \o line] ELSE d
    IN IF continued
       THEN [deb |-> d1, in_description |-> TRUE, err |-> <<>>, panic |-> FALSE]
       ELSE LET f == parse_control_field(line)
                r == StoreField(d1, f[1], f[2])
            IN [deb |-> r.deb, in_description |-> r.in_description, err |-> r.err,
                panic |-> FALSE]

----------------------------------------------------------------------------
\* Inputs of the model

DebianBinary == "debian-binary"
ControlNames == {"control.tar.gz", "control.tar.xz", "control.tar.zst"}
DataNames == {"data.tar.gz", "data.tar.xz", "data.tar.zst"}
OtherNames == {"_gpgorigin"}

ControlMember == "./control"
InnerNames == {ControlMember, "./md5sums"}

\* Contents of a debian-binary member
DebContents ==
  { <<"2", ".", "0", "\n">>,
    <<"2", ".", "0", NUL, "\n">>,
    <<>> }

NoBody == [content |-> <<>>, end |-> <<>>]

\* What a stream yields after its last byte
IOError == <<"unexpected EOF">>
StreamEnds == {EOF, IOError}

L_Description == S_Description \o FieldSep \o <<" ", "h", "i", " ">>
L_ContSpace == <<" ">> \o S_Package \o FieldSep \o <<"q">>
L_ContTab == <<"\t", "x">>
L_ContCR == <<"\r", "y">>
L_Empty == <<>>
L_SizeOk == S_InstalledSize \o FieldSep \o <<"1", "0", "2", "4">>
L_SizeBad == S_InstalledSize \o FieldSep \o <<"a", "b", "c">>
L_Package == S_Package \o FieldSep \o <<"p">>
L_Depends == S_Depends \o FieldSep \o <<"a", ",", " ", "b", ",", " ", "c">>
L_Custom == <<"X", "-", "C", "u", "s", "t", "o", "m">> \o FieldSep \o <<"f", "o", "o">>
L_Plain == <<"f", "o", "o">>

Lines == {L_Description, L_ContSpace, L_ContTab, L_ContCR, L_Empty, L_SizeOk, L_SizeBad,
          L_Package, L_Depends, L_Custom, L_Plain}

\* The raw lines of a control text: every line ends with a newline, one of
\* them with a carriage return before it
RawLines == {l \o <<"\n">> : l \in Lines} \cup {L_Package \o <<"\r", "\n">>}

\* More lines of a control text, for parse_control taken alone
L_Recommends == S_Recommends \o FieldSep \o <<"r", ",", " ", "s">>
L_BuiltUsing == S_BuiltUsing \o FieldSep \o <<"g">>
L_DependsSpaced == <<" ">> \o S_Depends \o FieldSep \o <<" ", "a", ",", "b", ",", " ", " ", "c", " ">>
L_DependsEnds == S_Depends \o FieldSep \o <<",", " ", "a", ",", " ", ",", " ">>
L_DependsNone == S_Depends \o FieldSep
L_Version == S_Version \o FieldSep \o <<"1", ":", " ", "2">>
L_SepOnly == FieldSep
L_Colon == S_Package \o <<":", "p">>
L_SizeNone == S_InstalledSize \o FieldSep

ControlLines ==
  Lines \cup {L_Recommends, L_BuiltUsing, L_DependsSpaced, L_DependsEnds, L_DependsNone,
              L_Version, L_SepOnly, L_Colon, L_SizeNone}

ControlRawLines == {l \o <<"\n">> : l \in ControlLines}

----------------------------------------------------------------------------
\* State

VARIABLES
  pc,             \* "start"; "walk": Parse is about to call ar_reader.Next();
                  \* "member": it has the result; "inner": parse_control_tar is
                  \* about to call tar_reader.Next(); "entry": it has the
                  \* result; "scan": parse_control is about to call
                  \* scanner.Scan(); "done": Parse returned; "panic": Parse
                  \* panicked
  deb,            \* the record Parse builds
  ret_deb,        \* the record Parse returned: <<>> is nil
  ret_err,        \* the error Parse returned
  header,         \* name of the outer member fetched last
  body,           \* bytes and stream end of a debian-binary member
  ar_err,         \* error of ar_reader.Next() in the running iteration
  tar_header,     \* name of the inner member of the running iteration
  tar_err,        \* error of tar_reader.Next() in the running iteration
  fetched,        \* number of outer members fetched
  ntar,           \* number of inner members fetched
  nlines,         \* number of control lines scanned
  in_description, \* continuation mode of parse_control
  line,           \* the line scanned last by the running call of parse_control
  found,          \* a ./control member was met in the running inner stream
  live,           \* streams opened and not yet closed
  desc_input,     \* the last Description line scanned and the lines after
                  \* it, while each of them starts with a continuation
                  \* character; <<>> otherwise
  ctl_err         \* the error the last call of parse_control returned

vars == <<pc, deb, ret_deb, ret_err, header, body, ar_err, tar_header, tar_err, fetched,
          ntar, nlines, in_description, line, found, live, desc_input, ctl_err>>

\* A stream is named by its kind: at most one stream of a kind is opened at
\* a time, and one that is never closed stays in live
FileStream == "file"
Decompressor(name) == name

\* The decompressors the wrapper of the given codec closes when it returns:
\* defer gz_reader.Close(), defer zst_reader.Close(), nothing for xz
Deferred(name) ==
  IF name \in {"control.tar.gz", "control.tar.zst"} THEN {Decompressor(name)} ELSE {}

DecompressMessage ==
  [n \in ControlNames |->
     CASE n = "control.tar.gz" -> "Error decompressing control.tar.gz"
       [] n = "control.tar.xz" -> "Error decompressing control.tar.xz"
       [] n = "control.tar.zst" -> "error decompressing control.tar.zst"]

Init ==
  /\ pc = "start"
  /\ deb = ZeroDEBPackage
  /\ ret_deb = <<>>
  /\ ret_err = <<>>
  /\ header = ""
  /\ body = NoBody
  /\ ar_err = <<>>
  /\ tar_header = ""
  /\ tar_err = <<>>
  /\ fetched = 0
  /\ ntar = 0
  /\ nlines = 0
  /\ in_description = FALSE
  /\ line = <<>>
  /\ found = FALSE
  /\ live = {}
  /\ desc_input = <<>>
  /\ ctl_err = <<>>

\* return d, e from Parse: the deferred file.Close() runs
Return(d, e) ==
  /\ pc' = "done"
  /\ ret_deb' = d
  /\ ret_err' = e
  /\ live' = live \ {FileStream}

\* The next iteration of the loop of Parse
Continue ==
  /\ pc' = "walk"
  /\ body' = NoBody
  /\ UNCHANGED <<ret_deb, ret_err, header>>

\* os.Open, file.Stat and the construction of the record
Open ==
  /\ pc = "start"
  /\ \E open_err \in {<<>>, <<"no such file">>}, stat_err \in {<<>>, <<"stat failed">>} :
       IF open_err # <<>>
       THEN /\ pc' = "done"
            /\ ret_deb' = <<>>
            /\ ret_err' = Wrap(open_err, "Cannot open pkg.deb")
            /\ UNCHANGED <<deb, live>>
       ELSE IF stat_err # <<>>
       THEN /\ pc' = "done"
            /\ ret_deb' = <<>>
            /\ ret_err' = Wrap(stat_err, "Cannot stat pkg.deb")
            /\ live' = (live \cup {FileStream}) \ {FileStream}
            /\ UNCHANGED deb
       ELSE /\ live' = live \cup {FileStream}
            /\ deb' = NewDEBPackage
            /\ pc' = "walk"
            /\ UNCHANGED <<ret_deb, ret_err>>
  /\ UNCHANGED <<header, body, ar_err, tar_header, tar_err, fetched, ntar, nlines,
                 in_description, line, found, desc_input, ctl_err>>

\* header, err := ar_reader.Next(): the end of the members, another error,
\* or the next member
ArNext ==
  /\ pc = "walk"
  /\ pc' = "member"
  /\ \/ /\ ar_err' \in {EOF, IOError}
        /\ header' = ""
        /\ UNCHANGED <<body, fetched>>
     \/ /\ fetched < MaxMembers
        /\ fetched' = fetched + 1
        /\ ar_err' = <<>>
        /\ \/ /\ header' = DebianBinary
              /\ body' \in [content : DebContents, end : StreamEnds]
           \/ /\ header' \in ControlNames \cup DataNames \cup OtherNames
              /\ body' = NoBody
  /\ UNCHANGED <<deb, ret_deb, ret_err, tar_header, tar_err, ntar, nlines, in_description,
                 line, found, live, desc_input, ctl_err>>

\* WalkEnd without the test for io.EOF: every error of Next is returned
WalkEnd_EOFIsError ==
  /\ pc = "member"
  /\ ar_err # <<>>
  /\ Return(<<>>, Wrap(ar_err, "Error reading pkg.deb"))
  /\ UNCHANGED <<deb, header, body, ar_err, tar_header, tar_err, fetched, ntar, nlines,
                 in_description, line, found, desc_input, ctl_err>>

\* if err != nil: io.EOF returns the record, any other error returns it wrapped
WalkEnd ==
  /\ pc = "member"
  /\ ar_err # <<>>
  /\ IF ar_err = EOF THEN Return(<<deb>>, <<>>)
     ELSE Return(<<>>, Wrap(ar_err, "Error reading pkg.deb"))
  /\ UNCHANGED <<deb, header, body, ar_err, tar_header, tar_err, fetched, ntar, nlines,
                 in_description, line, found, desc_input, ctl_err>>

\* parse_debian_binary on a member with the given content and stream end
parse_debian_binary(d, content, end) ==
  LET r == ReadString(content, end, NUL)
  IN IF r.err # EOF
     THEN [deb |-> d, err |-> Wrap(r.err, "Cannot read DEB version string")]
     ELSE [deb |-> [d EXCEPT !.DebVersion = TrimSpace(r.str)], err |-> <<>>]

\* header.Name == "debian-binary"
WalkDebianBinary ==
  /\ pc = "member"
  /\ ar_err = <<>>
  /\ header = DebianBinary
  /\ LET r == parse_debian_binary(deb, body.content, body.end)
     IN /\ deb' = r.deb
        /\ IF r.err # <<>>
           THEN /\ Return(<<>>, r.err)
                /\ UNCHANGED <<header, body>>
           ELSE /\ Continue
                /\ UNCHANGED live
  /\ UNCHANGED <<ar_err, tar_header, tar_err, fetched, ntar, nlines, in_description, line,
                 found, desc_input, ctl_err>>

\* header.Name is control.tar.gz, control.tar.xz or control.tar.zst: the
\* wrapper of the codec creates the decompressor and calls parse_control_tar
WalkControlTar ==
  /\ pc = "member"
  /\ ar_err = <<>>
  /\ header \in ControlNames
  /\ \E init_err \in {<<>>, <<"invalid header">>} :
       IF init_err # <<>>
       THEN Return(<<>>, Wrap(init_err, DecompressMessage[header]))
       ELSE /\ live' = live \cup {Decompressor(header)}
            /\ pc' = "inner"
            /\ UNCHANGED <<ret_deb, ret_err>>
  /\ UNCHANGED <<deb, header, body, ar_err, tar_header, tar_err, fetched, ntar, nlines,
                 in_description, line, found, desc_input, ctl_err>>

\* WalkData with the data members passed over like unknown members
WalkData_Skipped ==
  /\ pc = "member"
  /\ ar_err = <<>>
  /\ header \in DataNames
  /\ pc' = "walk"
  /\ body' = NoBody
  /\ UNCHANGED <<deb, ret_deb, ret_err, header, ar_err, tar_header, tar_err, fetched, ntar, nlines,
                 in_description, line, found, live, desc_input, ctl_err>>

\* header.Name is data.tar.gz, data.tar.xz or data.tar.zst
WalkData ==
  /\ pc = "member"
  /\ ar_err = <<>>
  /\ header \in DataNames
  /\ Return(<<deb>>, <<>>)
  /\ UNCHANGED <<deb, header, body, ar_err, tar_header, tar_err, fetched, ntar, nlines,
                 in_description, line, found, desc_input, ctl_err>>

\* WalkOther with the unknown member refused
WalkOther_Fatal ==
  /\ pc = "member"
  /\ ar_err = <<>>
  /\ header \notin {DebianBinary} \cup ControlNames \cup DataNames
  /\ Return(<<>>, <<"unknown member">>)
  /\ UNCHANGED <<deb, header, body, ar_err, tar_header, tar_err, fetched, ntar, nlines,
                 in_description, line, found, desc_input, ctl_err>>

\* any other name is printed
WalkOther ==
  /\ pc = "member"
  /\ ar_err = <<>>
  /\ header \notin {DebianBinary} \cup ControlNames \cup DataNames
  /\ Continue
  /\ UNCHANGED <<deb, ar_err, tar_header, tar_err, fetched, ntar, nlines, in_description,
                 line, found, live, desc_input, ctl_err>>

\* header, err := tar_reader.Next()
TarNext ==
  /\ pc = "inner"
  /\ pc' = "entry"
  /\ line' = <<>>
  /\ \/ /\ tar_err' \in {EOF, IOError}
        /\ UNCHANGED <<tar_header, ntar>>
     \/ /\ ntar < MaxInner
        /\ ntar' = ntar + 1
        /\ tar_err' = <<>>
        /\ tar_header' \in InnerNames
  /\ UNCHANGED <<deb, ret_deb, ret_err, header, body, ar_err, fetched, nlines,
                 in_description, found, live, desc_input, ctl_err>>

\* if err != nil in parse_control_tar: io.EOF returns nil to the wrapper,
\* which returns nil to Parse, whose loop goes on; any other error is wrapped
\* and returned by the wrapper and by Parse.  The wrapper's deferred Close runs.
TarEnd ==
  /\ pc = "entry"
  /\ tar_err # <<>>
  /\ LET err == IF tar_err = EOF THEN <<>> ELSE Wrap(tar_err, "Error reading control.tar")
     IN IF err # <<>>
        THEN /\ pc' = "done"
             /\ ret_deb' = <<>>
             /\ ret_err' = err
             /\ live' = (live \ Deferred(header)) \ {FileStream}
             /\ UNCHANGED <<header, body, tar_header, tar_err, found>>
        ELSE /\ Continue
             /\ live' = live \ Deferred(header)
             /\ tar_header' = ""
             /\ tar_err' = <<>>
             /\ found' = FALSE
  /\ UNCHANGED <<deb, ar_err, fetched, ntar, nlines, in_description, line, desc_input,
                 ctl_err>>

\* header.Name == "./control": parse_control is called; any other inner
\* member is passed over
TarMember ==
  /\ pc = "entry"
  /\ tar_err = <<>>
  /\ IF tar_header = ControlMember
     THEN /\ pc' = "scan"
          /\ found' = TRUE
     ELSE /\ pc' = "inner"
          /\ UNCHANGED found
  /\ UNCHANGED <<deb, ret_deb, ret_err, header, body, ar_err, tar_header, tar_err, fetched,
                 ntar, nlines, in_description, line, live, desc_input, ctl_err>>

\* The Description line and the continuation lines read after it
IsDescriptionLine(l) ==
  /\ Len(l) >= Len(S_Description) + 2
  /\ SubSeq(l, 1, Len(S_Description) + 2) = S_Description \o FieldSep

IsContinuationLine(l) == l # <<>> /\ Head(l) \in ContinuationChars

DescInput(old, l) ==
  IF IsDescriptionLine(l) THEN <<l>>
  ELSE IF old # <<>> /\ IsContinuationLine(l) THEN Append(old, l)
  ELSE <<>>

\* scanner.Scan() yields a line: one iteration of the loop of parse_control.
\* The value parse_control returns is dropped by parse_control_tar, whose
\* loop goes on.
ScanRaw(raw) ==
  LET r == LoopBody(deb, in_description, ScanLines(raw))
  IN /\ pc = "scan"
     /\ nlines < MaxLines
     /\ nlines' = nlines + 1
     /\ line' = ScanLines(raw)
     /\ IF r.panic
        THEN /\ pc' = "panic"
             /\ live' = (live \ Deferred(header)) \ {FileStream}
             /\ UNCHANGED <<deb, in_description, desc_input, ctl_err>>
        ELSE /\ deb' = r.deb
             /\ UNCHANGED live
             /\ IF r.err # <<>>
                THEN /\ ctl_err' = r.err
                     /\ pc' = "inner"
                     /\ in_description' = FALSE
                     /\ desc_input' = <<>>
                ELSE /\ pc' = "scan"
                     /\ in_description' = r.in_description
                     /\ desc_input' = DescInput(desc_input, ScanLines(raw))
                     /\ UNCHANGED ctl_err
     /\ UNCHANGED <<ret_deb, ret_err, header, body, ar_err, tar_header, tar_err, fetched, ntar,
                    found>>

\* scanner.Scan() returns false: parse_control returns scanner.Err() wrapped
ScanEnd ==
  /\ pc = "scan"
  /\ pc' = "inner"
  /\ \E e \in {<<>>, IOError} : ctl_err' = Wrap(e, "Error parsing control file")
  /\ in_description' = FALSE
  /\ line' = <<>>
  /\ desc_input' = <<>>
  /\ UNCHANGED <<deb, ret_deb, ret_err, header, body, ar_err, tar_header, tar_err, fetched,
                 ntar, nlines, found, live>>

\* The loop of parse_control within Parse, on the lines of Lines
ScanLine == \E raw \in RawLines : ScanRaw(raw)

Next ==
  \/ Open
  \/ ArNext
  \/ WalkEnd
  \/ WalkDebianBinary
  \/ WalkControlTar
  \/ WalkData
  \/ WalkOther
  \/ TarNext
  \/ TarEnd
  \/ TarMember
  \/ ScanLine
  \/ ScanEnd

Spec == Init /\ [][Next]_vars

\* parse_control taken alone: the state in which Parse calls it on the
\* ./control member of a control archive that is the first outer member, and
\* the steps of its loop on the lines of ControlLines
ControlInit ==
  /\ pc = "scan"
  /\ deb = NewDEBPackage
  /\ ret_deb = <<>>
  /\ ret_err = <<>>
  /\ header \in ControlNames
  /\ body = NoBody
  /\ ar_err = <<>>
  /\ tar_header = ControlMember
  /\ tar_err = <<>>
  /\ fetched = 1
  /\ ntar = 1
  /\ nlines = 0
  /\ in_description = FALSE
  /\ line = <<>>
  /\ found = TRUE
  /\ live = {FileStream, Decompressor(header)}
  /\ desc_input = <<>>
  /\ ctl_err = <<>>

ControlScanLine == \E raw \in ControlRawLines : ScanRaw(raw)

ControlNext ==
  \/ ControlScanLine
  \/ ScanEnd

ControlSpec == ControlInit /\ [][ControlNext]_vars

\* Parse runs in the goroutine of its caller, which takes its next step
\* whenever it has one
FairSpec == Spec /\ WF_vars(Next)

TypeOK ==
  /\ pc \in {"start", "walk", "member", "inner", "entry", "scan", "done", "panic"}
  /\ fetched \in 0..MaxMembers
  /\ ntar \in 0..MaxInner
  /\ nlines \in 0..MaxLines

----------------------------------------------------------------------------
\* Properties

SizeErrorMessage == "Error parsing Installed-Size"

IsSizeError(e) == e # <<>> /\ e[1] = SizeErrorMessage

\* C1: when a ./control text holds an Installed-Size field whose value is not
\* a base-10 integer, Parse ends with a fatal error and returns no record.
C1_MalformedSizeIsFatal ==
  (pc = "done" /\ IsSizeError(ctl_err)) => (ret_err # <<>> /\ ret_deb = <<>>)

\* C2: a zero-length line met in continuation mode does not crash the parser:
\* it ends continuation mode, changes no field of the record, and parsing
\* goes on with the next line.
C2_EmptyLineEndsContinuation ==
  [][(pc = "scan" /\ in_description /\ nlines' = nlines + 1 /\ line' = <<>>)
       => (pc' = "scan" /\ ~in_description' /\ deb' = deb)]_vars

\* C3: once the walk meets a member named data.tar.gz, data.tar.xz or
\* data.tar.zst, Parse returns the record accumulated so far and no error,
\* without opening a stream on that member and without fetching another member.
C3_DataStep ==
  (pc = "member" /\ ar_err = <<>> /\ header \in DataNames)
    => /\ pc' = "done"
       /\ deb' = deb
       /\ ret_deb' = <<deb>>
       /\ ret_err' = <<>>
       /\ fetched' = fetched
       /\ live' = live \ {FileStream}

C3_DataInv ==
  header \in DataNames
    => /\ pc \in {"member", "done"}
       /\ pc = "done" => (ret_deb = <<deb>> /\ ret_err = <<>>)

C3_DataMemberEndsWalk == []C3_DataInv /\ [][C3_DataStep]_vars

C3_Witness ==
  /\ pc = "done"
  /\ header \in DataNames
  /\ fetched = 3
  /\ ret_deb = <<deb>>
  /\ deb.Name # <<>>
  /\ deb.DebVersion # <<>>

\* C4: on every exit path of Parse every stream that was opened has been
\* released: the file and every decompressor of the three codecs.
C4_EveryStreamReleased == pc \in {"done", "panic"} => live = {}

RECURSIVE Concat(_)
Concat(ss) == IF ss = <<>> THEN <<>> ELSE Head(ss) \o Concat(Tail(ss))

DescriptionValue(l) == SubSeq(l, Len(S_Description) + 3, Len(l))

OtherFields(d) == [d EXCEPT !.Description = <<>>]

\* C5: after a Description line followed by lines that each start with a
\* space, tab, carriage return or newline, the description is the trimmed
\* value of the Description line followed by those lines, in order, verbatim
\* and without separator, and none of those lines is evaluated as a field line.
C5_DescriptionInv ==
  desc_input # <<>>
    => /\ deb.Description = TrimSpace(DescriptionValue(desc_input[1]))
                              \o Concat(Tail(desc_input))
       /\ in_description

C5_ContinuationStep ==
  (pc = "scan" /\ nlines' = nlines + 1 /\ desc_input # <<>> /\ IsContinuationLine(line'))
    => /\ pc' = "scan"
       /\ desc_input' = Append(desc_input, line')
       /\ OtherFields(deb') = OtherFields(deb)

C5_DescriptionContinuation == []C5_DescriptionInv /\ [][C5_ContinuationStep]_vars

C5_Witness ==
  /\ pc = "scan"
  /\ Len(desc_input) = 3
  /\ desc_input[2] = L_ContSpace
  /\ desc_input[3] = L_ContTab
  /\ deb.Description = <<"h", "i">> \o L_ContSpace \o L_ContTab
  /\ deb.Name = <<>>

\* C6: every outcome of Parse is a record and no error, or an error and no
\* record, and no fatal error (outer framing, inner framing, field parse
\* failure) ends in a successful return.
FatalErrorMet == ar_err = IOError \/ tar_err = IOError \/ IsSizeError(ctl_err)

C6_RecordOrError ==
  pc = "done"
    => /\ \/ (ret_deb # <<>> /\ ret_err = <<>>)
          \/ (ret_deb = <<>> /\ ret_err # <<>>)
       /\ FatalErrorMet => (ret_deb = <<>> /\ ret_err # <<>>)

\* C7: for every content of the debian-binary member, a read of the version
\* token that ends with end-of-stream stores the trimmed content as the
\* format version, and any other outcome of the read aborts Parse with an error.
C7_VersionReadOrAbort ==
  [][(pc = "member" /\ ar_err = <<>> /\ header = DebianBinary)
       => IF ReadString(body.content, body.end, NUL).err = EOF
          THEN pc' = "walk" /\ deb'.DebVersion = TrimSpace(body.content)
          ELSE pc' = "done" /\ ret_err' # <<>> /\ ret_deb' = <<>>]_vars

\* C8: once a ./control member of the inner stream has been parsed, no later
\* inner member is read: none is fetched and no framing error of the rest of
\* the stream is met.
C8_StopsAfterControl ==
  [][(pc = "inner" /\ found) => (ntar' = ntar /\ tar_err' # IOError)]_vars

\* C9: every fatal error raised while a control.tar.gz, control.tar.xz or
\* control.tar.zst member is processed is wrapped with a description naming
\* that compression form.
C9_ErrorNamesCodec ==
  (pc = "done" /\ header \in ControlNames /\ ret_err # <<>>)
    => \E i \in 1..Len(ret_err) : ret_err[i] = DecompressMessage[header]

\* C10: the three expected terminations are not errors: the end of the outer
\* members returns the record, an inner stream that ends without a ./control
\* member leaves the record as it was and the walk goes on, and a version
\* token read that ends with end-of-stream lets the walk go on.
C10_OuterEnd ==
  (pc = "done" /\ ar_err = EOF) => (ret_deb = <<deb>> /\ ret_err = <<>>)

C10_InnerEnd ==
  /\ (pc = "entry" /\ tar_err = EOF) => (pc' = "walk" /\ ret_err' = <<>> /\ deb' = deb)
  /\ (pc \in {"inner", "entry"} /\ ~found) => deb' = deb

C10_VersionEnd ==
  (pc = "member" /\ ar_err = <<>> /\ header = DebianBinary
     /\ NUL \notin {body.content[i] : i \in 1..Len(body.content)} /\ body.end = EOF)
    => (pc' = "walk" /\ ret_err' = <<>>)

C10_ExpectedEndsSucceed == []C10_OuterEnd /\ [][C10_InnerEnd /\ C10_VersionEnd]_vars

C10_Witness ==
  /\ pc = "done"
  /\ ar_err = EOF
  /\ ret_err = <<>>
  /\ deb.DebVersion = <<"2", ".", "0">>
  /\ "control.tar.xz" \in live
  /\ ntar = 1
  /\ nlines = 0
  /\ deb.Name = <<>>

\* The fields of the record that stem from the control text, each with the
\* name of its field line
FieldName ==
  [Architecture |-> S_Architecture, BuiltUsing |-> S_BuiltUsing, Depends |-> S_Depends,
   Description |-> S_Description, Homepage |-> S_Homepage,
   InstalledSize |-> S_InstalledSize, Maintainer |-> S_Maintainer, Name |-> S_Package,
   Priority |-> S_Priority, Recommends |-> S_Recommends, Section |-> S_Section,
   Version |-> S_Version]

ControlFields == DOMAIN FieldName

\* The name and the value of a line: the text before and after the first
\* ": " of the line, without the white space around it
HasSep(l) == \E i \in 1..(Len(l) - 1) : l[i] = ":" /\ l[i + 1] = " "

FirstSep(l) ==
  CHOOSE i \in 1..(Len(l) - 1) :
    /\ l[i] = ":" /\ l[i + 1] = " "
    /\ \A j \in 1..(i - 1) : ~(l[j] = ":" /\ l[j + 1] = " ")

NameOf(l) == IF HasSep(l) THEN TrimSpace(SubSeq(l, 1, FirstSep(l) - 1)) ELSE <<>>

ValueOf(l) == IF HasSep(l) THEN TrimSpace(SubSeq(l, FirstSep(l) + 2, Len(l))) ELSE <<>>

\* A step that scans a line without panicking; the line is taken as a
\* continuation line (Continued) or evaluated as a field line (Evaluated)
ScanStep == pc = "scan" /\ nlines' = nlines + 1 /\ pc' # "panic"

Continued == ScanStep /\ in_description /\ IsContinuationLine(line')

Evaluated == ScanStep /\ ~(in_description /\ IsContinuationLine(line'))

\* Continuation mode is entered only by a step that evaluates a Description
\* field line
OnlyDescriptionEnters ==
  (in_description' /\ ~in_description) => (Evaluated /\ NameOf(line') = S_Description)

C11_Step ==
  /\ OnlyDescriptionEnters
  /\ \A f \in ControlFields :
       deb'[f] # deb[f] =>
         /\ tar_header = ControlMember
         /\ \/ Evaluated /\ NameOf(line') = FieldName[f]
            \/ Continued /\ f = "Description"

C11_Inv ==
  /\ pc = "start" => deb = ZeroDEBPackage
  /\ nlines = 0 => \A f \in ControlFields : deb[f] = ZeroDEBPackage[f]
  /\ (pc = "done" /\ ret_deb # <<>>) => ret_deb[1] = deb
  /\ (pc = "done" /\ header \in DataNames /\ nlines = 0) =>
       /\ ret_err = <<>>
       /\ ret_deb # <<>>
       /\ \A f \in ControlFields : ret_deb[1][f] = ZeroDEBPackage[f]

\* C11: in every record Parse returns, a field that stems from the control
\* text differs from its zero value only if a field line of that field's name
\* was evaluated in a ./control member (the description also grows by the
\* continuation lines after its field line); when the data member comes
\* before any line of a control text is read, Parse returns a record with all
\* these fields zero, and no error.
C11_ControlFieldsFromControl == []C11_Inv /\ [][C11_Step]_vars

C11_Witness ==
  /\ pc = "done"
  /\ header \in DataNames
  /\ ret_deb # <<>>
  /\ ret_deb[1].Name = <<"p">>
  /\ ret_deb[1].Description # <<>>
  /\ ret_deb[1].Depends = <<>>

RECURSIVE Join(_, _)
Join(list, sep) ==
  IF list = <<>> THEN <<>>
  ELSE IF Len(list) = 1 THEN list[1]
  ELSE list[1] \o sep \o Join(Tail(list), sep)

Contains(s, sub) ==
  \E i \in 1..(Len(s) - Len(sub) + 1) : SubSeq(s, i, i + Len(sub) - 1) = sub

RecognizedNames == {FieldName[f] : f \in ControlFields}

ListFields == {"BuiltUsing", "Depends", "Recommends"}

\* C12: a field line whose name is none of the twelve recognized names, and a
\* line without ": " met outside continuation mode, changes no field of the
\* record and does not end the parse: the loop goes on, nothing is returned.
C12_IgnoredLinesChangeNothing ==
  [][(/\ pc = "scan"
      /\ nlines' = nlines + 1
      /\ \/ /\ HasSep(line')
            /\ NameOf(line') \notin RecognizedNames
            /\ ~(in_description /\ IsContinuationLine(line'))
         \/ ~HasSep(line') /\ ~in_description)
       => (deb' = deb /\ pc' = "scan" /\ ctl_err' = ctl_err)]_vars

C12_Witness ==
  /\ pc = "scan"
  /\ line \in {L_Custom, L_Plain}
  /\ nlines = 2
  /\ deb.Name = <<"p">>

\* C13: a Depends, Recommends or Built-Using field line stores the list of
\* the pieces of its trimmed value between the occurrences of ", ", in the
\* order of the text: the pieces joined by ", " give the value back and no
\* piece holds a ", "; "Depends: a, b, c" stores a, b, c.
C13_ListFieldsSplit ==
  [][Evaluated =>
       /\ \A f \in ListFields :
            NameOf(line') = FieldName[f] =>
              /\ Len(deb'[f]) >= 1
              /\ Join(deb'[f], ListSep) = ValueOf(line')
              /\ \A i \in 1..Len(deb'[f]) : ~Contains(deb'[f][i], ListSep)
       /\ line' = L_Depends => deb'.Depends = <<<<"a">>, <<"b">>, <<"c">>>>]_vars

C13_Witness ==
  /\ pc = "scan"
  /\ deb.Depends = <<<<"a">>, <<"b">>, <<"c">>>>
  /\ deb.Recommends = <<<<"r">>, <<"s">>>>
  /\ deb.BuiltUsing = <<<<"g">>>>

\* C14: a non-empty line that ends continuation mode is evaluated as a field
\* line in the same step: a recognized field of the line is stored, the
\* description is not extended by the line, and continuation mode goes on
\* only if the line is a Description field line; continuation mode is
\* entered only by a Description field line.
C14_EndingLineEvaluated ==
  [][/\ OnlyDescriptionEnters
     /\ (/\ pc = "scan"
         /\ nlines' = nlines + 1
         /\ in_description
         /\ line' # <<>>
         /\ Head(line') \notin ContinuationChars)
          => /\ pc' # "panic"
             /\ deb'.Description =
                  IF NameOf(line') = S_Description THEN ValueOf(line') ELSE deb.Description
             /\ \A f \in (ControlFields \ ListFields) \ {"InstalledSize"} :
                  NameOf(line') = FieldName[f] => deb'[f] = ValueOf(line')
             /\ \A f \in ListFields :
                  NameOf(line') = FieldName[f] => Join(deb'[f], ListSep) = ValueOf(line')
             /\ line' = L_SizeOk => deb'.InstalledSize = 1024
             /\ in_description' = (NameOf(line') = S_Description)]_vars

C14_Witness ==
  /\ pc = "scan"
  /\ nlines = 2
  /\ line = L_Package
  /\ deb.Name = <<"p">>
  /\ deb.Description = <<"h", "i">>
  /\ ~in_description

\* C15: an outer member of any other name than debian-binary, control.tar.*
\* and data.tar.* changes nothing of the record, gives no error and ends no
\* walk: the next step fetches the next member.
C15_OtherMemberSkipped ==
  [][(/\ pc = "member"
      /\ ar_err = <<>>
      /\ header \notin {DebianBinary} \cup ControlNames \cup DataNames)
       => /\ pc' = "walk"
          /\ deb' = deb
          /\ ret_err' = <<>>
          /\ ret_deb' = <<>>
          /\ live' = live
          /\ fetched' = fetched]_vars

C15_Witness ==
  /\ pc = "walk"
  /\ header \in OtherNames
  /\ fetched = 2
  /\ deb.DebVersion # <<>>
  /\ ret_err = <<>>

\* An optional sign and one or more decimal digits
IsBase10Integer(v) ==
  LET digits == IF v # <<>> /\ Head(v) \in {"+", "-"} THEN Tail(v) ELSE v
  IN /\ digits # <<>>
     /\ \A i \in 1..Len(digits) :
          digits[i] \in {"0", "1", "2", "3", "4", "5", "6", "7", "8", "9"}

\* C16: parse_control stops at an Installed-Size field line whose value is
\* not a base-10 integer: the step returns the error of the field and leaves
\* the record, the installed size included, as it was; after the return no
\* step changes the record until a ./control member is met again.
C16_MalformedSizeStopsParser ==
  [][/\ (/\ pc = "scan"
         /\ nlines' = nlines + 1
         /\ line' # <<>>
         /\ ~(in_description /\ IsContinuationLine(line'))
         /\ NameOf(line') = S_InstalledSize
         /\ ~IsBase10Integer(ValueOf(line')))
          => (pc' = "inner" /\ IsSizeError(ctl_err') /\ deb' = deb)
     /\ pc \in {"inner", "entry"} => deb' = deb
     /\ (pc = "entry" /\ pc' = "scan") => tar_header = ControlMember]_vars

C16_Witness ==
  /\ pc = "inner"
  /\ IsSizeError(ctl_err)
  /\ line = L_SizeBad
  /\ deb.InstalledSize = 1024
  /\ deb.Name = <<>>

\* The walk of Parse: members are fetched one after the other, a fetched
\* member is dispatched once, and the walk ends at the end of the members, at
\* a data member or at an error Parse returns
C17_Step ==
  /\ fetched' # fetched =>
       (pc = "walk" /\ pc' = "member" /\ fetched' = fetched + 1 /\ ar_err' = <<>>)
  /\ pc' = "member" => pc \in {"walk", "member"}
  /\ pc = "member" => (pc' # "member" \/ UNCHANGED vars)
  /\ (pc = "member" /\ (ar_err # <<>> \/ header \in DataNames)) =>
       (pc' = "done" \/ UNCHANGED vars)
  /\ ret_err' # ret_err => pc' = "done"
  /\ pc = "done" => UNCHANGED vars

C17_Inv ==
  pc = "done" => (ar_err # <<>> \/ header \in DataNames \/ ret_err # <<>>)

\* Parse ends, by a return or by the panic of an empty line met in
\* continuation mode
C17_EndsOrPanics == [][C17_Step]_vars /\ []C17_Inv /\ <>(pc \in {"done", "panic"})

\* C17: Parse terminates for every finite sequence of outer members: the walk
\* fetches the members in archive order, dispatches each fetched member once,
\* never goes back, and ends by a return at the first of the end of the
\* members, a data member and a fatal error.
C17_ParseTerminates == [][C17_Step]_vars /\ []C17_Inv /\ <>(pc = "done")

=============================================================================
